---------------------------- MODULE Spec2Model ----------------------------
(***************************************************************************)
(* Model of NestLoudsTrieStore::build_by_iter                              *)
(* (src/src/terark/db/dfadb/nlt_store.cpp): the two-pass dictionary build  *)
(* over a source iterator, the logical/physical id walk driven by the      *)
(* deletion and purge bitmaps, and the process-wide mutex that serialises  *)
(* the prepare/addRecord/completeBuild window of concurrent builds.        *)
(*                                                                         *)
(* Every concurrent call of build_by_iter is one "build" b.  Its locals    *)
(* (the C++ stack frame plus the ZipBuilder it owns) are the record        *)
(* st[b]; its arguments are the record arg[b].  Each action is one step    *)
(* of the function body: one loop iteration, one blocking lock, one call   *)
(* into the builder.                                                       *)
(***************************************************************************)
EXTENDS Integers, Sequences, FiniteSets, TLC

VARIABLES
    arg,      \* arg[b]: the arguments of call b (schema, iter's store, isDel, isPurged)
    st,       \* st[b]: the locals of call b, its builder and the store object it fills
    mutex,    \* DictZip_reduceMemMutex(): 0 when free, else the build that holds it
    aborted,  \* TRUE once abort() has terminated the process
    mt        \* outputs of the default-seeded std::mt19937_64 revealed so far

vars == <<arg, st, mutex, aborted, mt>>

Builds == DOMAIN st

----------------------------------------------------------------------------
(* Bounds of the model *)

\* largest number of logical ids (isPurged->size()) and of physical ids
MaxLogic == 3
\* number of concurrent build_by_iter calls in the concurrent specification
NumBuilds == 2
\* largest requested ratio, in units of 1/RatioDen, given to the sizing alone
MaxRatioIn == 21
\* largest data size, in units of INT32_MAX * 0.95, given to the sizing alone
MaxSizeIn == 41
\* number of save calls followed on one store object
MaxSaves == 2

----------------------------------------------------------------------------
(* Program constants.  Ratios are rationals n/d; the schema's ratio is     *)
(* given in units of 1/RatioDen.  Data sizes are in units of               *)
(* INT32_MAX * 0.95 bytes.  Generator outputs are in units of              *)
(* (random.max() - random.min()) / RatioDen, random.min() being 0.         *)

\* valvec<byte> rec starts empty: no record read yet
NoRec == -1
\* denominator of the ratio unit: 0.05 = 1/20
RatioDen == 20

DefaultRatio == [n |-> 1, d |-> RatioDen]     \* 0.05
HalfRatio == [n |-> 1, d |-> 2]               \* 0.5

\* representatives of a draw: below 0.05, between 0.05 and 0.5, above 0.5
DrawSet == {0, 5, 15}

\* values an uninitialized llong recId may hold when it is read
UninitValues == {-1, 0, MaxLogic}

Literal == [kind |-> "literal", id |-> NoRec]   \* "Hello World!"
RecSample(id) == [kind |-> "rec", id |-> id]

NoErr == [kind |-> "none", line |-> 0, logicId |-> 0, physicId |-> 0]

----------------------------------------------------------------------------
(* The source iterator.  a.src is the set of physical ids the store holds; *)
(* the iterator yields them in ascending order.  a.emptyIds are the ids    *)
(* whose record is the empty byte string.  A record's content is           *)
(* identified by its id.                                                   *)

\* the k-th (1-based) id of the store in iteration order
IdAt(S, k) == CHOOSE x \in S : Cardinality({y \in S : y < x}) = k - 1

\* iter.getStore()->numDataRows()
numDataRows(a) == Cardinality(a.src)

\* iter.increment(&id, &rec): is there a next record
HasNext(s, a) == s.iterPos < Cardinality(a.src)
\* the id iter.increment yields
NextId(s, a) == IdAt(a.src, s.iterPos + 1)

\* iter.seekExact(id, &rec): found or not
seekExact(a, id) == id \in a.src

\* rec.empty()
RecEmpty(r, a) == r = NoRec \/ r \in a.emptyIds

\* terark_bit_test on the bitmaps
IsDel(a, id) == id \in a.del
IsPurged(a, id) == id \in a.purged

\* NULL == isPurged || isPurged->size() == 0
NoPurge(a) == a.purgedNull \/ a.logicNum = 0

----------------------------------------------------------------------------
(* Arguments of a call.  With a purge bitmap the code requires isDel to be *)
(* non-null (assert(NULL != isDel), line 189), so such calls always pass   *)
(* one.                                                                    *)

Ids(n) == 0 .. (n - 1)

\* schema.m_dictZipSampleRatio in units of 1/RatioDen: -0.05, 0, 1.0
Ratios == {-1, 0, RatioDen}
\* iter.getStore()->dataInflateSize() in units of INT32_MAX * 0.95
DataSizes == {1, 2 * RatioDen}

\* the stores an iterator may run over: ids present, and which are empty
Stores(n) ==
    { [src |-> S, emptyIds |-> E, null |-> FALSE] : <<S, E>> \in
        { p \in (SUBSET Ids(n)) \X (SUBSET Ids(n)) : p[2] \subseteq p[1] } }

\* an iterator whose getStore() is nullptr
NullStore == [src |-> {}, emptyIds |-> {}, null |-> TRUE]

\* isPurged NULL or of size 0; isDel NULL or a bitmap
BitmapsNoPurge(n) ==
    { [delNull |-> TRUE, del |-> {}, purgedNull |-> pn, logicNum |-> 0,
       purged |-> {}] : pn \in BOOLEAN }
    \cup
    { [delNull |-> FALSE, del |-> D, purgedNull |-> pn, logicNum |-> 0,
       purged |-> {}] : D \in SUBSET Ids(n), pn \in BOOLEAN }

\* isPurged of size N >= 1, isDel a bitmap over the same N logical ids
BitmapsPurge(n) ==
    UNION { { [delNull |-> FALSE, del |-> D, purgedNull |-> FALSE,
               logicNum |-> N, purged |-> P] :
              D \in SUBSET Ids(N), P \in SUBSET Ids(N) } : N \in 1 .. n }

MkArg(r, z, store, bm) ==
    [ratio |-> r, dataSize |-> z, src |-> store.src,
     emptyIds |-> store.emptyIds, storeNull |-> store.null, delNull |-> bm.delNull, del |-> bm.del,
     purgedNull |-> bm.purgedNull, logicNum |-> bm.logicNum,
     purged |-> bm.purged]

\* requested ratio and data size: a negative ratio (the size is never
\* read), the default ratio on small and on huge data, a ratio above 0.5
RatioSizes ==
    { q \in Ratios \X DataSizes : (q[1] < 0 \/ q[1] = RatioDen) => q[2] = 1 }

\* a call on an iterator without a store fails before the bitmaps are read
Args(n) ==
    { MkArg(rz[1], rz[2], s, bm) :
        rz \in RatioSizes,
        s \in Stores(n),
        bm \in BitmapsNoPurge(n) \cup BitmapsPurge(n) }
    \cup
    { MkArg(r, 1, NullStore, bm) :
        r \in {-1, 0},
        bm \in { x \in BitmapsNoPurge(n) : x.delNull /\ x.purgedNull } }

----------------------------------------------------------------------------
(* Locals of a call on entry *)

\* the frame of a call whose unique_lock is built without std::defer_lock
\* and so owns the mutex from the start
InitLocalLocking ==
    [pc |-> "Sizing", owns |-> TRUE, sampleRatio |-> DefaultRatio,
     iterPos |-> 0, rec |-> NoRec, recId |-> 0, recIdSet |-> FALSE,
     physicId |-> 0, newPhysicId |-> 0, logicId |-> 0, sampled |-> 0,
     rng |-> 0, samples |-> <<>>, prepareCalls |-> <<>>, records |-> <<>>,
     completed |-> FALSE, m_store |-> "old", err |-> NoErr, errlog |-> <<>>,
     walk1 |-> <<>>, walk2 |-> <<>>]

InitLocal ==
    [pc |-> "Sizing",
     owns |-> FALSE,            \* std::unique_lock<std::mutex> lock (defer_lock)
     sampleRatio |-> DefaultRatio,
     iterPos |-> 0,             \* records the iterator has gone past
     rec |-> NoRec,             \* valvec<byte> rec
     recId |-> 0, recIdSet |-> FALSE,   \* llong recId, not initialized
     physicId |-> 0, newPhysicId |-> 0, logicId |-> 0,
     sampled |-> 0,
     rng |-> 0,                 \* draws taken from std::mt19937_64 random
     samples |-> <<>>,          \* builder->addSample calls
     prepareCalls |-> <<>>,     \* builder->prepare calls (record counts)
     records |-> <<>>,          \* builder->addRecord calls (physical ids)
     completed |-> FALSE,       \* zds->completeBuild returned
     m_store |-> "old",         \* what this->m_store points to
     err |-> NoErr,             \* the exception thrown or the abort message
     errlog |-> <<>>,           \* lines printed to stderr without aborting
     walk1 |-> <<>>,            \* <<logicId, physicId, live>> seen by pass 1
     walk2 |-> <<>>]            \* <<logicId, physicId, live>> seen by pass 2

----------------------------------------------------------------------------
(* Leaving the function other than by return *)

\* A C++ exception leaves build_by_iter: the locals are destroyed, and
\* ~unique_lock unlocks the mutex if the lock owns it.  m_store is untouched.
Throw(s, kind) ==
    [s EXCEPT !.pc = "Failed", !.owns = FALSE,
              !.err = [kind |-> kind, line |-> 0, logicId |-> 0, physicId |-> 0]]

\* fprintf(stderr, "ERROR: ...") followed by abort(): the process ends where
\* it stands, no destructor runs
Abort(s, line) ==
    [s EXCEPT !.pc = "Aborted",
              !.err = [kind |-> "abort", line |-> line,
                       logicId |-> s.logicId, physicId |-> s.physicId]]

\* "physicId != physicNum" printed to stderr; execution continues
CountCheck(s, a, line) ==
    IF s.physicId # numDataRows(a)
    THEN Append(s.errlog, [line |-> line, physicId |-> s.physicId,
                           physicNum |-> numDataRows(a)])
    ELSE s.errlog

----------------------------------------------------------------------------
(* Sizing: lines 128-166 *)

RatioLess(p, q) == p.n * q.d < q.n * p.d

\* the sizing without lines 137-139
EffectiveRatioNoShrink(r0, dataSize) ==
    LET r1 == IF r0 > 0 THEN [n |-> r0, d |-> RatioDen] ELSE DefaultRatio
    IN  IF RatioLess(HalfRatio, r1) THEN HalfRatio ELSE r1

\* lines 132-140 on rationals: the requested ratio or 0.05, shrunk when
\* dataSize * sampleRatio >= INT32_MAX * 0.95, then capped at 0.5
EffectiveRatio(r0, dataSize) ==
    LET r1 == IF r0 > 0 THEN [n |-> r0, d |-> RatioDen] ELSE DefaultRatio
        r2 == IF dataSize * r1.n >= r1.d THEN [n |-> 1, d |-> dataSize] ELSE r1
    IN  IF RatioLess(HalfRatio, r2) THEN HalfRatio ELSE r2

\* the checks of lines 128 and 135 left out
SizingStepUnchecked(s, a) ==
    [s EXCEPT !.sampleRatio = EffectiveRatio(a.ratio, a.dataSize),
              !.pc = "Sampling"]

\* random() < sampleUpperBound, with sampleUpperBound =
\* random.min() + (random.max() - random.min()) * sampleRatio
Accept(v, ratio) == v * ratio.d < RatioDen * ratio.n

SizingStep(s, a) ==
    IF a.ratio < 0
    THEN Throw(s, "invalid_argument")
    ELSE IF a.storeNull
    THEN Throw(s, "invalid_argument")
    ELSE [s EXCEPT !.sampleRatio = EffectiveRatio(a.ratio, a.dataSize),
                   !.pc = "Sampling"]

----------------------------------------------------------------------------
(* Sampling: lines 168-178 without a purge bitmap, 190-224 with one *)

\* no literal when the last record is empty
emptyCheckNoLiteral(sampleLenSum, r, a, samp) ==
    IF sampleLenSum = 0 /\ ~RecEmpty(r, a)
    THEN Append(samp, RecSample(r))
    ELSE samp

\* lines 113-121
emptyCheckProtect(sampleLenSum, r, a, samp) ==
    IF sampleLenSum = 0
    THEN IF RecEmpty(r, a) THEN Append(samp, Literal)
                           ELSE Append(samp, RecSample(r))
    ELSE samp

\* a purged id that takes a physical id all the same
SkipPurgedAdvancing(s) == [s EXCEPT !.physicId = @ + 1, !.logicId = @ + 1]

\* a purged logical id, in either pass: the test of lines 197 and 230 fails,
\* only ++logicId runs
SkipPurged(s) == [s EXCEPT !.logicId = @ + 1]

\* physicId++ moved inside the not-deleted branch
SampleDeletedNoAdvance(s) ==
    [s EXCEPT !.walk1 = Append(@, <<s.logicId, s.physicId, FALSE>>),
              !.logicId = @ + 1]

\* pass 1 at a deleted logical id that is not purged: lines 198 and 216
SampleDeleted(s) ==
    [s EXCEPT !.walk1 = Append(@, <<s.logicId, s.physicId, FALSE>>),
              !.physicId = @ + 1,
              !.logicId = @ + 1]

\* a miss that is skipped without a word
SeekMissSkipped(s) ==
    [s EXCEPT !.walk1 = Append(@, <<s.logicId, s.physicId, TRUE>>),
              !.newPhysicId = @ + 1,
              !.physicId = @ + 1,
              !.logicId = @ + 1]

\* pass 1, seekExact found nothing: lines 200-206
SeekMiss(s) == Abort(s, 205)

\* a mismatch that is passed over
AdvanceMismatchIgnored(s) ==
    [s EXCEPT !.iterPos = @ + 1,
              !.walk2 = Append(@, <<s.logicId, s.physicId, FALSE>>),
              !.physicId = @ + 1,
              !.logicId = @ + 1]

\* pass 2, increment found nothing or another id: lines 233-239
AdvanceMismatch(s) == Abort(s, 238)

\* the deletion bitmap read at the physical id
RecordLiveByPhysicId(a, logicId, physicId) == ~IsDel(a, physicId)

\* pass 2, is the record at this logical id passed to addRecord: line 240
RecordLive(a, logicId, physicId) == ~IsDel(a, logicId)

\* one turn of the while loop of lines 170-177, or its exit and line 178.
\* v is the generator's next output; it is consumed only when random() is
\* evaluated.  A failed increment leaves rec as it was.
SampleNoPurgeStep(s, a, v) ==
    IF HasNext(s, a)
    THEN LET id == NextId(s, a)
             live == a.delNull \/ ~IsDel(a, id)
             draws == live /\ ~RecEmpty(id, a)
             take == draws /\ Accept(v, s.sampleRatio)
         IN  [s EXCEPT !.iterPos = @ + 1,
                       !.recId = id, !.recIdSet = TRUE, !.rec = id,
                       !.rng = IF draws THEN @ + 1 ELSE @,
                       !.samples = IF take THEN Append(@, RecSample(id)) ELSE @,
                       !.sampled = IF take THEN @ + 1 ELSE @,
                       !.walk1 = Append(@, <<id, id, live>>)]
    ELSE [s EXCEPT !.samples = emptyCheckProtect(s.sampled, s.rec, a, @),
                   !.pc = "AwaitingGuard"]

\* one turn of the for loop of lines 196-218, or its exit and lines 219-224
SamplePurgeStep(s, a, v) ==
    IF s.logicId < a.logicNum
    THEN IF ~IsPurged(a, s.logicId)
         THEN IF ~IsDel(a, s.logicId)
              THEN IF ~seekExact(a, s.physicId)
                   THEN SeekMiss(s)
                   ELSE LET draws == ~RecEmpty(s.physicId, a)
                            take == draws /\ Accept(v, s.sampleRatio)
                        IN  [s EXCEPT
                               !.rec = s.physicId,
                               !.iterPos = Cardinality({y \in a.src : y <= s.physicId}),
                               !.rng = IF draws THEN @ + 1 ELSE @,
                               !.samples = IF take THEN Append(@, RecSample(s.physicId)) ELSE @,
                               !.sampled = IF take THEN @ + 1 ELSE @,
                               !.newPhysicId = @ + 1,
                               !.walk1 = Append(@, <<s.logicId, s.physicId, TRUE>>),
                               !.physicId = @ + 1,
                               !.logicId = @ + 1]
              ELSE SampleDeleted(s)
         ELSE SkipPurged(s)
    ELSE [s EXCEPT !.errlog = CountCheck(s, a, 219),
                   !.samples = emptyCheckProtect(s.sampled, s.rec, a, @),
                   !.pc = "AwaitingGuard"]

----------------------------------------------------------------------------
(* Preparing: lines 179-181 and 225-228 (after the lock is taken) *)

\* prepare without the iter.reset() that follows it
PrepareStepNoReset(s, a, u, ok) ==
    IF ~ok
    THEN Throw(s, "prepare")
    ELSE LET n == IF NoPurge(a)
                  THEN (IF s.recIdSet THEN s.recId ELSE u) + 1
                  ELSE s.newPhysicId
         IN  [s EXCEPT !.prepareCalls = Append(@, n),
                       !.physicId = 0,
                       !.logicId = 0,
                       !.pc = "Recording"]

\* builder->prepare(recId + 1, ...) / builder->prepare(newPhysicId, ...),
\* iter.reset(), physicId = 0.  u is the value read from recId when no
\* increment ever assigned it; ok is whether prepare returns or throws.
PrepareStep(s, a, u, ok) ==
    IF ~ok
    THEN Throw(s, "prepare")
    ELSE LET n == IF NoPurge(a)
                  THEN (IF s.recIdSet THEN s.recId ELSE u) + 1
                  ELSE s.newPhysicId
         IN  [s EXCEPT !.prepareCalls = Append(@, n),
                       !.iterPos = 0,
                       !.physicId = 0,
                       !.logicId = 0,
                       !.pc = "Recording"]

----------------------------------------------------------------------------
(* Recording: lines 182-186 without a purge bitmap, 229-250 with one *)

\* one turn of the while loop of lines 182-186, or its exit
RecordNoPurgeStep(s, a, ok) ==
    IF HasNext(s, a)
    THEN LET id == NextId(s, a)
             live == a.delNull \/ ~IsDel(a, id)
             t == [s EXCEPT !.iterPos = @ + 1,
                            !.recId = id, !.recIdSet = TRUE, !.rec = id,
                            !.walk2 = Append(@, <<id, id, live>>)]
         IN  IF ~live THEN t
             ELSE IF ~ok THEN Throw(t, "addRecord")
             ELSE [t EXCEPT !.records = Append(@, id)]
    ELSE [s EXCEPT !.pc = "Completing"]

\* one turn of the for loop of lines 229-245, or its exit and lines 246-250
RecordPurgeStep(s, a, ok) ==
    IF s.logicId < a.logicNum
    THEN IF ~IsPurged(a, s.logicId)
         THEN IF ~HasNext(s, a) \/ s.physicId # NextId(s, a)
              THEN AdvanceMismatch(s)
              ELSE LET live == RecordLive(a, s.logicId, s.physicId)
                       t == [s EXCEPT
                               !.iterPos = @ + 1,
                               !.rec = s.physicId,
                               !.walk2 = Append(@, <<s.logicId, s.physicId, live>>)]
                   IN  IF ~live
                       THEN [t EXCEPT !.physicId = @ + 1, !.logicId = @ + 1]
                       ELSE IF ~ok THEN Throw(t, "addRecord")
                       ELSE [t EXCEPT !.records = Append(@, s.physicId),
                                      !.physicId = @ + 1, !.logicId = @ + 1]
         ELSE SkipPurged(s)
    ELSE [s EXCEPT !.errlog = CountCheck(s, a, 246),
                   !.pc = "Completing"]

----------------------------------------------------------------------------
(* Completing: lines 252-255 *)

\* m_store.reset(zds.release()) moved before completeBuild
CompleteStepStoreFirst(s, ok) ==
    IF ~ok THEN Throw([s EXCEPT !.m_store = "new"], "completeBuild")
    ELSE [s EXCEPT !.m_store = "new", !.completed = TRUE, !.pc = "Releasing"]

\* zds->completeBuild(*builder)
CompleteStep(s, ok) ==
    IF ~ok THEN Throw(s, "completeBuild")
    ELSE [s EXCEPT !.completed = TRUE, !.pc = "Releasing"]

\* builder.reset(); lock.unlock(); m_store.reset(zds.release()).
\* unique_lock::unlock throws std::system_error when the lock owns nothing.
ReleaseStep(s) ==
    IF ~s.owns THEN Throw(s, "system_error")
    ELSE [s EXCEPT !.owns = FALSE, !.m_store = "new", !.pc = "Done"]

----------------------------------------------------------------------------
(* The mutex and the generator *)

\* a lock() that never waits
CanLockAlways(m) == TRUE

\* std::mutex::lock returns only when no thread holds the mutex
CanLock(m) == m = 0

\* a lock() that returns without the unique_lock owning the mutex
LockStepNotOwning(s) == [s EXCEPT !.pc = "Preparing"]

\* lock.lock() returned: lines 179 and 225
LockStep(s) == [s EXCEPT !.owns = TRUE, !.pc = "Preparing"]

\* the mutex after a step of build b: released when the step ended the
\* ownership of b's unique_lock (lock.unlock() or ~unique_lock)
MutexAfter(m, s, t) == IF s.owns /\ ~t.owns THEN 0 ELSE m

\* a generator seeded anew, differently, in every build
DrawAny(s, v) == TRUE

\* the k-th output of a default-constructed std::mt19937_64 is the same in
\* every build: v agrees with what was revealed of the sequence
DrawAgrees(s, v) == s.rng < Len(mt) => v = mt[s.rng + 1]
MtAfter(s, t, v) ==
    IF t.rng > s.rng /\ s.rng >= Len(mt) THEN Append(mt, v) ELSE mt

----------------------------------------------------------------------------
(* Actions: one step of build b.  Nothing runs after abort(). *)

At(b, label) == ~aborted /\ st[b].pc = label

\* build b's frame becomes t
Commit(b, t) ==
    /\ st' = [st EXCEPT ![b] = t]
    /\ mutex' = MutexAfter(mutex, st[b], t)
    /\ aborted' = (aborted \/ t.pc = "Aborted")
    /\ UNCHANGED arg

Sizing(b) ==
    /\ At(b, "Sizing")
    /\ Commit(b, SizingStep(st[b], arg[b]))
    /\ UNCHANGED mt

SampleNoPurge(b) ==
    /\ At(b, "Sampling")
    /\ NoPurge(arg[b])
    /\ \E v \in DrawSet :
          /\ DrawAgrees(st[b], v)
          /\ LET t == SampleNoPurgeStep(st[b], arg[b], v)
             IN  Commit(b, t) /\ mt' = MtAfter(st[b], t, v)

SamplePurge(b) ==
    /\ At(b, "Sampling")
    /\ ~NoPurge(arg[b])
    /\ \E v \in DrawSet :
          /\ DrawAgrees(st[b], v)
          /\ LET t == SamplePurgeStep(st[b], arg[b], v)
             IN  Commit(b, t) /\ mt' = MtAfter(st[b], t, v)

LockGuard(b) ==
    /\ At(b, "AwaitingGuard")
    /\ CanLock(mutex)
    /\ mutex' = b
    /\ st' = [st EXCEPT ![b] = LockStep(st[b])]
    /\ UNCHANGED <<arg, aborted, mt>>

Prepare(b) ==
    /\ At(b, "Preparing")
    /\ \E u \in UninitValues, ok \in BOOLEAN :
          Commit(b, PrepareStep(st[b], arg[b], u, ok))
    /\ UNCHANGED mt

RecordNoPurge(b) ==
    /\ At(b, "Recording")
    /\ NoPurge(arg[b])
    /\ \E ok \in BOOLEAN : Commit(b, RecordNoPurgeStep(st[b], arg[b], ok))
    /\ UNCHANGED mt

RecordPurge(b) ==
    /\ At(b, "Recording")
    /\ ~NoPurge(arg[b])
    /\ \E ok \in BOOLEAN : Commit(b, RecordPurgeStep(st[b], arg[b], ok))
    /\ UNCHANGED mt

Complete(b) ==
    /\ At(b, "Completing")
    /\ \E ok \in BOOLEAN : Commit(b, CompleteStep(st[b], ok))
    /\ UNCHANGED mt

Release(b) ==
    /\ At(b, "Releasing")
    /\ Commit(b, ReleaseStep(st[b]))
    /\ UNCHANGED mt

Next ==
    \/ \E b \in Builds : Sizing(b)
    \/ \E b \in Builds : SampleNoPurge(b)
    \/ \E b \in Builds : SamplePurge(b)
    \/ \E b \in Builds : LockGuard(b)
    \/ \E b \in Builds : Prepare(b)
    \/ \E b \in Builds : RecordNoPurge(b)
    \/ \E b \in Builds : RecordPurge(b)
    \/ \E b \in Builds : Complete(b)
    \/ \E b \in Builds : Release(b)

----------------------------------------------------------------------------
(* Specifications *)

\* one call of build_by_iter, over every argument within MaxLogic
Init ==
    /\ arg \in [{1} -> Args(MaxLogic)]
    /\ st = [b \in {1} |-> InitLocal]
    /\ mutex = 0
    /\ aborted = FALSE
    /\ mt = <<>>

Spec == Init /\ [][Next]_vars

\* the arguments of the concurrent calls: the default ratio or a negative
\* one, a store of at most one non-empty record, no bitmaps or bitmaps over
\* one logical id that is not purged
ConcArgs ==
    { a \in Args(1) :
        /\ a.ratio <= 0
        /\ a.dataSize = 1
        /\ a.emptyIds = {}
        /\ a.purged = {}
        /\ ~a.storeNull
        /\ a.ratio < 0 => (a.src = {} /\ NoPurge(a))
        /\ NoPurge(a) => (a.delNull /\ a.purgedNull) }

\* NumBuilds threads call build_by_iter at the same time
InitConc ==
    /\ arg \in [1 .. NumBuilds -> ConcArgs]
    /\ st = [b \in 1 .. NumBuilds |-> InitLocal]
    /\ mutex = 0
    /\ aborted = FALSE
    /\ mt = <<>>

SpecConc == InitConc /\ [][Next]_vars

\* one step of the thread running build b
BuildStep(b) ==
    \/ Sizing(b)
    \/ SampleNoPurge(b)
    \/ SamplePurge(b)
    \/ LockGuard(b)
    \/ Prepare(b)
    \/ RecordNoPurge(b)
    \/ RecordPurge(b)
    \/ Complete(b)
    \/ Release(b)

\* the concurrent calls under a scheduler that lets every thread run: a
\* thread that can go on does go on (a thread inside lock.lock() can go on
\* only while the mutex is free; each build locks at most once, so weak
\* fairness is all std::mutex has to give)
SpecFair ==
    InitConc /\ [][Next]_vars /\ \A b \in 1 .. NumBuilds : WF_vars(BuildStep(b))

\* the arguments of concurrent calls on like sources: the default ratio, a
\* store of two records the first of which may be empty, the first logical
\* id deleted or not, without a purge bitmap or with one that purges nothing
TwinArgs ==
    { a \in Args(2) :
        /\ a.ratio = 0
        /\ a.dataSize = 1
        /\ a.src = {0, 1}
        /\ a.emptyIds \subseteq {0}
        /\ ~a.delNull
        /\ a.del \subseteq {0}
        /\ a.purged = {}
        /\ NoPurge(a) => a.purgedNull
        /\ ~NoPurge(a) => a.logicNum = 2 }

\* NumBuilds threads call build_by_iter at the same time on such sources:
\* the first two on the same one, any further on one without deleted or
\* empty records
InitTwin ==
    /\ arg \in { f \in [1 .. NumBuilds -> TwinArgs] :
                    /\ f[1] = f[2]
                    /\ \A b \in 3 .. NumBuilds :
                          f[b].del = {} /\ f[b].emptyIds = {} }
    /\ st = [b \in 1 .. NumBuilds |-> InitLocal]
    /\ mutex = 0
    /\ aborted = FALSE
    /\ mt = <<>>

SpecTwin == InitTwin /\ [][Next]_vars

\* the sizing alone (lines 128-141), over every requested ratio >= 0 up to
\* MaxRatioIn and every data size from 1 to MaxSizeIn, on an empty store
SizingArgs ==
    { MkArg(r, z, [src |-> {}, emptyIds |-> {}, null |-> FALSE],
            [delNull |-> TRUE, del |-> {}, purgedNull |-> TRUE,
             logicNum |-> 0, purged |-> {}]) :
        r \in 0 .. MaxRatioIn, z \in 1 .. MaxSizeIn }

InitSizing ==
    /\ arg \in [{1} -> SizingArgs]
    /\ st = [b \in {1} |-> InitLocal]
    /\ mutex = 0
    /\ aborted = FALSE
    /\ mt = <<>>

NextSizing == \E b \in Builds : Sizing(b)

SpecSizing == InitSizing /\ [][NextSizing]_vars

----------------------------------------------------------------------------
(* The store object outside build_by_iter: construction, build, load and  *)
(* save (lines 13-17, 74-107, 258-281).  Here st[b] is one                *)
(* NestLoudsTrieStore object: m_store is the class of the blob store it   *)
(* holds ("null" when it holds none), saves is the log of its save calls. *)
(* A path is the sequence of its parts, the last being the extension.     *)

\* the classes of blob store an object may hold; "Other" is a BlobStore of
\* a class the file does not name
StoreClasses ==
    {"NestLoudsTrieBlobStore_IL", "NestLoudsTrieBlobStore_SE",
     "NestLoudsTrieBlobStore_SE_512", "FastZipBlobStore", "DictZipBlobStore",
     "Other"}

\* what a dynamic_cast of the held store succeeds for: the tries are DFAs,
\* the two zip stores are not, and neither zip store derives from the other
CastsTo(class) ==
    CASE class \in {"NestLoudsTrieBlobStore_IL", "NestLoudsTrieBlobStore_SE",
                    "NestLoudsTrieBlobStore_SE_512"} -> {"BaseDFA"}
      [] class = "FastZipBlobStore" -> {"FastZipBlobStore"}
      [] class = "DictZipBlobStore" -> {"DictZipBlobStore"}
      [] OTHER -> {}

Paths == { <<"seg">>, <<"seg", ".nlt">> }

\* lines 259-261 and 266-268
Fpath(path) ==
    IF path[Len(path)] = ".nlt" THEN path ELSE Append(path, ".nlt")

\* schemas given to build: sample ratio (in 1/RatioDen), m_useFastZip,
\* m_rankSelectClass
Schemas ==
    [ratio : {0, 1}, useFastZip : BOOLEAN, rs : {-256, 0, 256, 512}]

\* nltBuild, lines 74-89
nltBuild(schema) ==
    CASE schema.rs = -256 -> "NestLoudsTrieBlobStore_IL"
      [] schema.rs = 256 -> "NestLoudsTrieBlobStore_SE"
      [] schema.rs = 512 -> "NestLoudsTrieBlobStore_SE_512"
      [] OTHER -> "NestLoudsTrieBlobStore_SE_512"

\* NestLoudsTrieStore::build, lines 91-107: the class of the store built
BuiltClass(schema) ==
    IF schema.ratio > 0 THEN "DictZipBlobStore"
    ELSE IF schema.useFastZip THEN "FastZipBlobStore"
    ELSE nltBuild(schema)

SaveEntry(class, fpath, called, outcome) ==
    [store |-> class, fpath |-> fpath, called |-> called, outcome |-> outcome]

\* a save that does nothing for a store it does not know
SaveStepSilent(s, path) ==
    LET fpath == Fpath(path)
        casts == CastsTo(s.m_store)
    IN  IF "BaseDFA" \in casts
        THEN SaveEntry(s.m_store, fpath, <<"BaseDFA::save_mmap">>, "returned")
        ELSE IF "FastZipBlobStore" \in casts
        THEN SaveEntry(s.m_store, fpath, <<"FastZipBlobStore::save_mmap">>, "returned")
        ELSE IF "DictZipBlobStore" \in casts
        THEN SaveEntry(s.m_store, fpath, <<"DictZipBlobStore::save_mmap">>, "returned")
        ELSE SaveEntry(s.m_store, fpath, <<>>, "returned")

\* NestLoudsTrieStore::save on a held store, lines 265-281: the serializer
\* calls made and how the call ends
SaveStep(s, path) ==
    LET fpath == Fpath(path)
        casts == CastsTo(s.m_store)
    IN  IF "BaseDFA" \in casts
        THEN SaveEntry(s.m_store, fpath, <<"BaseDFA::save_mmap">>, "returned")
        ELSE IF "FastZipBlobStore" \in casts
        THEN SaveEntry(s.m_store, fpath, <<"FastZipBlobStore::save_mmap">>, "returned")
        ELSE IF "DictZipBlobStore" \in casts
        THEN SaveEntry(s.m_store, fpath, <<"DictZipBlobStore::save_mmap">>, "returned")
        ELSE SaveEntry(s.m_store, fpath, <<>>, "invalid_argument")

\* the object after either constructor (lines 13-17)
StoreObject(class) == [pc |-> "Idle", m_store |-> class, saves |-> <<>>]

StoreIdle(b) == st[b].pc = "Idle"

\* build(schema, strVec)
StoreBuild(b) ==
    /\ StoreIdle(b)
    /\ \E schema \in Schemas :
          st' = [st EXCEPT ![b].m_store = BuiltClass(schema)]
    /\ UNCHANGED <<arg, mutex, aborted, mt>>

\* load(path): BlobStore::load_from yields whatever class the file holds
StoreLoad(b) ==
    /\ StoreIdle(b)
    /\ \E path \in Paths, class \in StoreClasses :
          st' = [st EXCEPT ![b].m_store = class]
    /\ UNCHANGED <<arg, mutex, aborted, mt>>

\* save(path) on an object that holds a store
StoreSave(b) ==
    /\ StoreIdle(b)
    /\ st[b].m_store # "null"
    /\ Len(st[b].saves) < MaxSaves
    /\ \E path \in Paths :
          st' = [st EXCEPT ![b].saves = Append(@, SaveStep(st[b], path))]
    /\ UNCHANGED <<arg, mutex, aborted, mt>>

\* save(path) on an object that holds none: &*m_store dereferences a null
\* pointer, the call may crash or find every cast failing
StoreSaveNull(b) ==
    /\ StoreIdle(b)
    /\ st[b].m_store = "null"
    /\ Len(st[b].saves) < MaxSaves
    /\ \E path \in Paths :
          \/ st' = [st EXCEPT ![b].pc = "Crashed"]
          \/ st' = [st EXCEPT ![b].saves = Append(@, SaveStep(st[b], path))]
    /\ UNCHANGED <<arg, mutex, aborted, mt>>

\* one object, built by NestLoudsTrieStore(schema) or by
\* NestLoudsTrieStore(schema, blobStore)
InitStore ==
    /\ arg = [b \in {1} |-> [mmapPopulate |-> FALSE]]
    /\ st \in [{1} -> { StoreObject(c) : c \in StoreClasses \cup {"null"} }]
    /\ mutex = 0
    /\ aborted = FALSE
    /\ mt = <<>>

NextStore ==
    \/ \E b \in Builds : StoreBuild(b)
    \/ \E b \in Builds : StoreLoad(b)
    \/ \E b \in Builds : StoreSave(b)
    \/ \E b \in Builds : StoreSaveNull(b)

SpecStore == InitStore /\ [][NextStore]_vars

----------------------------------------------------------------------------
(* Claims *)

\* build b is between lock.lock() returning and lock.unlock()
InWindow(b) == st[b].pc \in {"Preparing", "Recording", "Completing", "Releasing"}

\* b's call has ended with an exception or with abort()
HasFailed(b) == st[b].pc \in {"Failed", "Aborted"}

\* b has finished pass 2
PastRecording(b) == st[b].pc \in {"Completing", "Releasing", "Done"}

\* C1: among any number of concurrent builds at most one is between its
\* guard acquisition (before prepare) and its guard release (after
\* completeBuild), and that one holds the mutex.
C1_WindowsNeverOverlap ==
    \A b1 \in Builds :
        InWindow(b1) =>
            /\ mutex = b1
            /\ \A b2 \in Builds : InWindow(b2) => b2 = b1

\* one build records while another waits for the guard
C1_Witness ==
    \E b1 \in Builds, b2 \in Builds :
        /\ st[b1].pc = "Recording"
        /\ st[b1].records # <<>>
        /\ st[b2].pc = "AwaitingGuard"

\* C2: a build that has failed, on whatever path, does not hold the guard
\* any more.
C2_FailedBuildHoldsNoGuard ==
    \A b \in Builds : HasFailed(b) => mutex # b

----------------------------------------------------------------------------
(* What the bitmaps alone say, without walking anything *)

\* the logical ids that have a physical representation
NonPurged(a) ==
    IF NoPurge(a) THEN Ids(MaxLogic) ELSE Ids(a.logicNum) \ a.purged

\* the physical id of a non-purged logical id
PhysOf(a, l) ==
    IF NoPurge(a) THEN l ELSE Cardinality({k \in NonPurged(a) : k < l})

\* the logical ids that must end in the new store
LiveLogic(a) ==
    { l \in NonPurged(a) : a.delNull \/ l \notin a.del }

\* a set of ids as the ascending sequence
Ascending(S) == [k \in 1 .. Cardinality(S) |-> IdAt(S, k)]

\* the physical ids of the store whose logical id is live, ascending
ExpectedRecords(a) ==
    Ascending({ j \in a.src : \E l \in LiveLogic(a) : PhysOf(a, l) = j })

\* the physical ids a walk judged live, in walk order
LiveIdsOf(w) ==
    LET lw == SelectSeq(w, LAMBDA e : e[3])
    IN  [k \in 1 .. Len(lw) |-> lw[k][2]]

\* C3: when a build has finished both passes, pass 1 and pass 2 have seen
\* the same sequence of (logical id, physical id, live) triples, and the
\* physical ids pass 1 judged live are, in order, the records pass 2 passed
\* to addRecord.
C3_PassesAgree ==
    \A b \in Builds :
        PastRecording(b) =>
            /\ st[b].walk1 = st[b].walk2
            /\ LiveIdsOf(st[b].walk1) = st[b].records

\* a finished build over purged, deleted and live logical ids
C3_Witness ==
    \E b \in Builds :
        /\ st[b].pc = "Done"
        /\ ~NoPurge(arg[b])
        /\ arg[b].purged # {}
        /\ arg[b].del \ arg[b].purged # {}
        /\ st[b].records # <<>>

\* C4: a build whose pass 1 or pass 2 ended with a physical-id count other
\* than numDataRows() calls neither prepare nor completeBuild and replaces
\* no store.
C4_CountMismatchFailsBuild ==
    \A b \in Builds :
        st[b].errlog # <<>> =>
            /\ st[b].prepareCalls = <<>>
            /\ ~st[b].completed
            /\ st[b].m_store = "old"

\* C5: the count given to prepare is the number of live records, which is
\* the number of records then passed to addRecord.  Stated for the builds
\* that submitted at least one record, where recId has been assigned.
C5_PrepareCountIsLiveCount ==
    \A b \in Builds :
        (PastRecording(b) /\ st[b].records # <<>>) =>
            st[b].prepareCalls = <<Len(st[b].records)>>

\* C6: the records passed to addRecord are exactly the store's records whose
\* logical id is neither deleted nor purged, once each, in ascending
\* physical-id order (without a purge bitmap the logical id is the
\* physical id).
C6_RecordsAreTheLiveRecords ==
    \A b \in Builds :
        PastRecording(b) => st[b].records = ExpectedRecords(arg[b])

\* a finished build where a purged id precedes a deleted one and records
\* were submitted
C6_Witness ==
    \E b \in Builds :
        /\ st[b].pc = "Done"
        /\ ~NoPurge(arg[b])
        /\ \E q \in arg[b].purged, l \in arg[b].del \ arg[b].purged : q < l
        /\ Len(st[b].records) >= 1

\* the k-th (1-based) non-purged logical id
NonPurgedAt(a, k) == IdAt(NonPurged(a), k)

\* a walk maps the j-th non-purged logical id to physical id j
MapsInOrder(a, w) ==
    \A k \in 1 .. Len(w) :
        /\ k <= Cardinality(NonPurged(a))
        /\ w[k][1] = NonPurgedAt(a, k)
        /\ w[k][2] = k - 1
        /\ w[k][3] = (w[k][1] \notin a.del)

\* C7: with a purge bitmap over N logical ids of which p are purged, each
\* pass maps the j-th non-purged logical id to physical id j (a purged id
\* takes no physical id, a deleted one that is not purged does), and each
\* pass ends with N - p physical ids produced.
C7_PurgeWalkMapping ==
    \A b \in Builds :
        ~NoPurge(arg[b]) =>
            LET total == arg[b].logicNum - Cardinality(arg[b].purged)
            IN  /\ MapsInOrder(arg[b], st[b].walk1)
                /\ MapsInOrder(arg[b], st[b].walk2)
                /\ st[b].pc \in {"AwaitingGuard", "Preparing"} =>
                      /\ st[b].physicId = total
                      /\ Len(st[b].walk1) = total
                /\ PastRecording(b) =>
                      /\ st[b].physicId = total
                      /\ Len(st[b].walk2) = total

\* pass 2 has ended after a purged id came before a deleted one and a live
\* one
C7_Witness ==
    \E b \in Builds :
        /\ st[b].pc = "Completing"
        /\ ~NoPurge(arg[b])
        /\ \E q \in arg[b].purged, d \in arg[b].del \ arg[b].purged,
              l \in LiveLogic(arg[b]) : q < d /\ q < l

\* the frames in which emptyCheckProtect has run and pass 2 has not begun
SamplingOver(b) == st[b].pc \in {"AwaitingGuard", "Preparing"}

\* C8: when prepare is called at least one addSample call has been made;
\* after a pass that accepted no sample exactly one fallback sample was
\* submitted (the last record read if it is not empty, else the literal),
\* and none after a pass that accepted samples.
C8_SampleSetNeverEmpty ==
    \A b \in Builds :
        /\ st[b].prepareCalls # <<>> => st[b].samples # <<>>
        /\ SamplingOver(b) =>
              IF st[b].sampled = 0
              THEN st[b].samples =
                      << IF RecEmpty(st[b].rec, arg[b])
                         THEN Literal ELSE RecSample(st[b].rec) >>
              ELSE /\ Len(st[b].samples) = st[b].sampled
                   /\ \A k \in 1 .. Len(st[b].samples) :
                         /\ st[b].samples[k] # Literal
                         /\ ~RecEmpty(st[b].samples[k].id, arg[b])

\* prepare was called after a pass that read records, accepted none and
\* fell back to the literal
C8_Witness ==
    \E b \in Builds :
        /\ st[b].prepareCalls # <<>>
        /\ st[b].sampled = 0
        /\ st[b].samples = <<Literal>>
        /\ st[b].walk1 # <<>>

\* nothing of a build changes once abort() was called in it
AbortIsFinal ==
    \A b \in Builds : st[b].pc = "Aborted" => st'[b] = st[b]

\* the live logical ids whose physical id the store does not hold
MissingLive(a) ==
    { l \in LiveLogic(a) : PhysOf(a, l) \notin a.src }

\* pass 1 of build b has gone past logical id l
PassedInSampling(b, l) ==
    \/ st[b].pc = "Sampling" /\ l < st[b].logicId
    \/ st[b].pc \in {"AwaitingGuard", "Preparing", "Recording", "Completing",
                     "Releasing", "Done"}
    \/ st[b].prepareCalls # <<>>

\* the state part of C9
C9_MissState ==
    \A b \in Builds :
        ~NoPurge(arg[b]) =>
            /\ \A l \in MissingLive(arg[b]) : ~PassedInSampling(b, l)
            /\ (st[b].pc = "Aborted" /\ st[b].err.line = 205) =>
                  /\ st[b].err.logicId \in MissingLive(arg[b])
                  /\ \A l \in MissingLive(arg[b]) : st[b].err.logicId <= l
                  /\ st[b].err.physicId = PhysOf(arg[b], st[b].err.logicId)
                  /\ mutex # b /\ ~st[b].owns
                  /\ st[b].prepareCalls = <<>>
                  /\ st[b].records = <<>>
                  /\ ~st[b].completed
                  /\ st[b].m_store = "old"
                  /\ Len(st[b].samples) = st[b].sampled
                  /\ \A k \in 1 .. Len(st[b].samples) :
                        st[b].samples[k].id < st[b].err.physicId

\* C9: in the sampling walk with a purge bitmap a seekExact miss is never
\* passed over: the build stops there with a message naming the physical
\* id, no further sample is taken, the guard is never acquired, prepare,
\* addRecord and completeBuild are never called and no store is produced.
C9_SeekMissFailsBuild == [](C9_MissState) /\ [][AbortIsFinal]_vars

\* a miss after a sample had been taken
C9_Witness ==
    \E b \in Builds :
        /\ st[b].pc = "Aborted"
        /\ st[b].err.line = 205
        /\ st[b].err.physicId > 0
        /\ st[b].samples # <<>>

\* the state part of C10
C10_MismatchState ==
    \A b \in Builds :
        ~NoPurge(arg[b]) =>
            /\ \A k \in 1 .. Len(st[b].walk2) :
                  /\ k <= Cardinality(arg[b].src)
                  /\ IdAt(arg[b].src, k) = st[b].walk2[k][2]
            /\ (st[b].pc = "Aborted" /\ st[b].err.line = 238) =>
                  /\ st[b].err.logicId \in NonPurged(arg[b])
                  /\ st[b].err.physicId = PhysOf(arg[b], st[b].err.logicId)
                  /\ \/ ~HasNext(st[b], arg[b])
                     \/ NextId(st[b], arg[b]) # st[b].err.physicId
                  /\ \A k \in 1 .. Len(st[b].records) :
                        st[b].records[k] < st[b].err.physicId
                  /\ ~st[b].completed
                  /\ st[b].m_store = "old"

\* records of a build are only ever appended, and never after abort()
RecordsStopAtAbort ==
    \A b \in Builds :
        st[b].pc = "Aborted" =>
            /\ st'[b].records = st[b].records
            /\ st'[b].completed = st[b].completed
            /\ st'[b].pc = "Aborted"

\* C10: in the recording walk with a purge bitmap an advance that reaches
\* the end of the source early or yields another physical id than the walk
\* predicts stops the build at that logical id: neither that record nor a
\* later one is passed to addRecord and completeBuild is never called.
C10_AdvanceMismatchFailsBuild ==
    [](C10_MismatchState) /\ [][RecordsStopAtAbort]_vars

\* the advance yielded another id after a record had been submitted
C10_Witness ==
    \E b \in Builds :
        /\ st[b].pc = "Aborted"
        /\ st[b].err.line = 238
        /\ HasNext(st[b], arg[b])
        /\ st[b].records # <<>>

\* the state part of C11
C11_StoreState ==
    \A b \in Builds :
        /\ st[b].m_store = "new" => (st[b].completed /\ st[b].pc = "Done")
        /\ HasFailed(b) => st[b].m_store = "old"

\* m_store changes only in the step after completeBuild has returned
StoreChangesAfterComplete ==
    \A b \in Builds :
        st'[b].m_store # st[b].m_store =>
            /\ st[b].completed
            /\ st[b].pc = "Releasing"
            /\ st'[b].pc = "Done"

\* C11: the store object's backing store is replaced only after
\* completeBuild has returned; a build that failed (bad argument, abort,
\* error thrown by the builder) leaves the backing store it held and makes
\* no new store visible.
C11_StoreOnlyAfterCompletion ==
    [](C11_StoreState) /\ [][StoreChangesAfterComplete]_vars

\* completeBuild itself threw after records had been submitted
C11_Witness ==
    \E b \in Builds :
        /\ st[b].pc = "Failed"
        /\ st[b].err.kind = "completeBuild"
        /\ st[b].records # <<>>
        /\ st[b].m_store = "old"

\* position of a state in the order Sizing .. Done (Releasing is the tail
\* of Completing)
Rank(pc) ==
    CASE pc = "Sizing" -> 1
      [] pc = "Sampling" -> 2
      [] pc = "AwaitingGuard" -> 3
      [] pc = "Preparing" -> 4
      [] pc = "Recording" -> 5
      [] pc = "Completing" -> 6
      [] pc = "Releasing" -> 6
      [] pc = "Done" -> 7
      [] OTHER -> 8

\* one step of build b keeps the order of the states and of the calls
OrderedStep(b) ==
    LET s == st[b]
        t == st'[b]
    IN  t # s =>
          /\ s.pc \notin {"Done", "Failed", "Aborted"}
          /\ t.pc \notin {"Failed", "Aborted"} =>
                \/ Rank(t.pc) = Rank(s.pc) + 1
                \/ t.pc = s.pc /\ s.pc \in {"Sampling", "Recording"}
                \/ s.pc = "Completing" /\ t.pc = "Releasing"
          /\ t.samples # s.samples =>
                /\ s.pc = "Sampling"
                /\ s.prepareCalls = <<>>
          /\ t.prepareCalls # s.prepareCalls =>
                /\ s.pc = "Preparing" /\ t.pc = "Recording"
                /\ s.prepareCalls = <<>> /\ Len(t.prepareCalls) = 1
                /\ s.records = <<>>
                /\ t.iterPos = 0
          /\ t.records # s.records =>
                /\ s.pc = "Recording"
                /\ Len(s.prepareCalls) = 1
                /\ ~s.completed
                /\ t.records = Append(s.records, t.records[Len(t.records)])
          /\ t.completed # s.completed =>
                /\ s.pc = "Completing" /\ t.pc = "Releasing"

\* C12: a build goes through Sizing, Sampling, AwaitingGuard, Preparing,
\* Recording, Completing, Done in that order without going back; every
\* addSample precedes the one prepare, the iterator is at its start after
\* prepare and before the first addRecord, every addRecord precedes the one
\* completeBuild, and Failed and Done are never left.
C12_StatesInOrder == [][\A b \in Builds : OrderedStep(b)]_vars

\* a finished build that made several addSample and addRecord calls
C12_Witness ==
    \E b \in Builds :
        /\ st[b].pc = "Done"
        /\ Len(st[b].samples) >= 2
        /\ Len(st[b].records) >= 2

\* build b has not yet called lock.lock(), or waits in it
BeforeGuard(b) == st[b].pc \in {"Sizing", "Sampling", "AwaitingGuard"}

\* C13: the guard is held only across Preparing, Recording and Completing:
\* a build that is sizing, sampling or waiting for the guard does not hold
\* it, so sizing and sampling of several builds overlap freely.
C13_GuardOnlyInWindow ==
    \A b \in Builds :
        BeforeGuard(b) => (mutex # b /\ ~st[b].owns)

\* one build is in the middle of its sampling pass while another holds the
\* guard and records
C13_Witness ==
    \E b1 \in Builds, b2 \in Builds :
        /\ st[b1].pc = "Sampling" /\ st[b1].walk1 # <<>>
        /\ st[b2].pc = "Recording" /\ mutex = b2

\* two builds are in the middle of their sampling passes at once
C13_BothSampling ==
    \E b1 \in Builds, b2 \in Builds :
        /\ b1 # b2
        /\ st[b1].pc = "Sampling" /\ st[b1].walk1 # <<>>
        /\ st[b2].pc = "Sampling" /\ st[b2].walk1 # <<>>

\* nothing of the source was read, nothing was given to the builder and the
\* guard was not touched
NothingDone(b) ==
    /\ st[b].iterPos = 0 /\ st[b].rec = NoRec /\ ~st[b].recIdSet
    /\ st[b].walk1 = <<>> /\ st[b].walk2 = <<>>
    /\ st[b].rng = 0
    /\ st[b].samples = <<>>
    /\ st[b].prepareCalls = <<>>
    /\ st[b].records = <<>>
    /\ ~st[b].completed
    /\ st[b].m_store = "old"
    /\ ~st[b].owns /\ mutex # b

\* C14: a call with a negative sample ratio ends with invalid_argument
\* before the iterator is advanced, sought or reset, before any addSample,
\* prepare or addRecord call and without acquiring the guard.
C14_NegativeRatioFailsFirst ==
    \A b \in Builds :
        arg[b].ratio < 0 =>
            /\ st[b].pc \in {"Sizing", "Failed"}
            /\ st[b].pc = "Failed" => st[b].err.kind = "invalid_argument"
            /\ NothingDone(b)

\* the call with a negative ratio on a store that has records has failed
C14_Witness ==
    \E b \in Builds :
        /\ arg[b].ratio < 0
        /\ arg[b].src # {}
        /\ st[b].pc = "Failed"

\* C15: for a data size S > 0 and a requested ratio r0 >= 0 the effective
\* ratio r' of the sizing satisfies 0 < r' <= 0.5 and r' * S < 0.95 * 2^31.
\* Sizes are in units of INT32_MAX * 0.95, which is below 0.95 * 2^31, so
\* r' * S <= 1 unit is what is checked.
C15_EffectiveRatioInRange ==
    \A b \in Builds :
        st[b].pc = "Sampling" =>
            LET r == st[b].sampleRatio
            IN  /\ r.d > 0
                /\ r.n > 0
                /\ 2 * r.n <= r.d
                /\ r.n * arg[b].dataSize <= r.d

\* a requested ratio that was shrunk to 0.95 * INT32_MAX / S and is below
\* the cap
C15_Witness ==
    \E b \in Builds :
        /\ st[b].pc = "Sampling"
        /\ arg[b].ratio > 0
        /\ arg[b].dataSize > 2
        /\ st[b].sampleRatio = [n |-> 1, d |-> arg[b].dataSize]

\* the serializer that belongs to a class of store
SerializerOf(class) ==
    CASE class = "FastZipBlobStore" -> "FastZipBlobStore::save_mmap"
      [] class = "DictZipBlobStore" -> "DictZipBlobStore::save_mmap"
      [] OTHER -> "BaseDFA::save_mmap"

\* C16: save calls exactly the one serializer of the class of store the
\* object holds (trie/DFA, FastZip, DictZip) and returns; when the store
\* is of none of these classes it calls none and ends with an error.
C16_SaveDispatch ==
    \A b \in Builds :
        \A k \in 1 .. Len(st[b].saves) :
            LET e == st[b].saves[k]
            IN  /\ e.store \in StoreClasses \ {"Other"} =>
                      /\ e.called = <<SerializerOf(e.store)>>
                      /\ e.outcome = "returned"
                /\ e.store \notin StoreClasses \ {"Other"} =>
                      /\ e.called = <<>>
                      /\ e.outcome = "invalid_argument"

\* a store of an unknown class was refused after a DictZip store was saved
C16_Witness ==
    \E b \in Builds :
        /\ Len(st[b].saves) = 2
        /\ st[b].saves[1].store = "DictZipBlobStore"
        /\ st[b].saves[1].outcome = "returned"
        /\ st[b].saves[2].store = "Other"
        /\ st[b].saves[2].outcome = "invalid_argument"

\* whenever build b holds the guard it later lets it go
WindowEnds(b) == (mutex = b) ~> (mutex # b)

\* whenever build b waits for the guard it later gets it
Served(b) == (st[b].pc = "AwaitingGuard") ~> (st[b].pc = "Preparing")

\* C17: under fair scheduling, if every build that holds the guard
\* eventually ends its window, every build that reaches AwaitingGuard
\* eventually enters Preparing.
C17_WaitingBuildsAreServed ==
    (\A b \in 1 .. NumBuilds : WindowEnds(b))
        => (\A b \in 1 .. NumBuilds : Served(b))

\* the same, for the runs in which abort() is never called
C17_ServedUnlessAborted ==
    ([]~aborted /\ \A b \in 1 .. NumBuilds : WindowEnds(b))
        => (\A b \in 1 .. NumBuilds : Served(b))

\* the physical ids of the store that hold a live record
LivePhysical(a) ==
    { j \in a.src : \E l \in LiveLogic(a) : PhysOf(a, l) = j }

\* C18: every sample given to addSample is the fallback literal or the
\* content of a live record (neither deleted nor purged) of the source, the
\* fallback sample included.
C18_SamplesAreLive ==
    \A b \in Builds :
        \A k \in 1 .. Len(st[b].samples) :
            \/ st[b].samples[k] = Literal
            \/ /\ st[b].samples[k].kind = "rec"
               /\ st[b].samples[k].id \in LivePhysical(arg[b])

\* a step of build b takes the guard only out of AwaitingGuard, once, and
\* gives it up only as its holder, leaving it free
GuardStep(b) ==
    LET s == st[b]
        t == st'[b]
    IN  /\ (~s.owns /\ t.owns) =>
              /\ s.pc = "AwaitingGuard" /\ t.pc = "Preparing"
              /\ mutex = 0 /\ mutex' = b
              /\ s.prepareCalls = <<>>
        /\ (s.owns /\ ~t.owns) => (mutex = b /\ mutex' = 0)
        /\ (s.pc = "Releasing" /\ t.pc # "Releasing") =>
              /\ s.owns /\ mutex = b
              /\ t.pc = "Done" /\ mutex' = 0

\* b is at completeBuild or at the explicit unlock
AtCompleteOrUnlock(b) == st[b].pc \in {"Completing", "Releasing"}

\* C19: a build takes the guard at most once and never releases a guard it
\* does not hold: at completeBuild and at lock.unlock(), in either branch,
\* the build is the holder; unlock never fails for want of ownership, and
\* after it the guard is free.
C19_ReleasesOnlyHeldGuard ==
    /\ [](\A b \in Builds :
            /\ AtCompleteOrUnlock(b) => (st[b].owns /\ mutex = b)
            /\ st[b].err.kind # "system_error"
            /\ (st[b].pc = "Done" => (~st[b].owns /\ mutex # b)))
    /\ [][\A b \in Builds : GuardStep(b)]_vars

\* both branches have reached Done while another build holds the guard
C19_Witness ==
    \E b1 \in Builds, b2 \in Builds :
        /\ st[b1].pc = "Done" /\ st[b1].completed
        /\ ~NoPurge(arg[b1])
        /\ AtCompleteOrUnlock(b2) /\ mutex = b2
        /\ NoPurge(arg[b2])

IsPrefix(p, q) ==
    Len(p) <= Len(q) /\ \A k \in 1 .. Len(p) : p[k] = q[k]

\* one of two call sequences continues the other
Comparable(p, q) == IsPrefix(p, q) \/ IsPrefix(q, p)

\* the live, non-empty records pass 1 of build b has gone past
DrawsDue(b) ==
    Cardinality({ k \in 1 .. Len(st[b].walk1) :
                    /\ st[b].walk1[k][3]
                    /\ ~RecEmpty(st[b].walk1[k][2], arg[b]) })

\* b has made all its addSample calls
SamplesComplete(b) ==
    st[b].pc \in {"AwaitingGuard", "Preparing", "Recording", "Completing",
                  "Releasing", "Done"}

\* C20: a build draws from its generator once per live, non-empty record
\* and no more, and two builds given the same source contents, bitmaps and
\* configuration make the same addSample calls and the same addRecord
\* calls, however they interleave with each other and with other builds.
C20_SameInputSameCalls ==
    \A b1 \in Builds :
        /\ st[b1].rng = DrawsDue(b1)
        /\ \A b2 \in Builds :
              arg[b1] = arg[b2] =>
                  /\ Comparable(st[b1].samples, st[b2].samples)
                  /\ Comparable(st[b1].records, st[b2].records)
                  /\ (SamplesComplete(b1) /\ SamplesComplete(b2)) =>
                        st[b1].samples = st[b2].samples
                  /\ (PastRecording(b1) /\ PastRecording(b2)) =>
                        st[b1].records = st[b2].records

\* two finished builds on the same input, one draw accepted and one refused
C20_Witness ==
    \E b1 \in Builds, b2 \in Builds :
        /\ b1 # b2
        /\ arg[b1] = arg[b2]
        /\ st[b1].pc = "Done" /\ st[b2].pc = "Done"
        /\ st[b1].rng = 2 /\ st[b1].sampled = 1
        /\ st[b2].samples = st[b1].samples

=============================================================================
